---- MODULE Spec2Model ----
(***************************************************************************)
(* A model of sopel_discord.py, the Discord <-> IRC relay plugin for       *)
(* sopel: setup / _setup_webhooks (mapping tables, webhook registry,       *)
(* start-once guard), on_message (Discord -> IRC) and irc_message          *)
(* (IRC -> Discord).                                                       *)
(*                                                                         *)
(* Python values: a str is a sequence of one-character strings, a dict is  *)
(* a sequence of <<key, value>> pairs with distinct keys (insertion        *)
(* ordered, as in Python), the empty dict {} is <<>>, a webhook object is  *)
(* a record [id, token, name] whose id is a str of decimal digits.         *)
(***************************************************************************)
EXTENDS Integers, Sequences, FiniteSets, TLC

VARIABLES
    client_channel_mappings,  \* client.channel_mappings: discord id -> irc channel
    memory_channel_mappings,  \* bot.memory['channel_mappings']: irc channel -> discord id
    webhooks,                 \* bot.memory['webhooks']: discord id -> webhook or {}
    discord_hooks,            \* the Discord side: per channel, the webhooks it lists
    setup_pc,                 \* where the thread that runs setup() stands
    setup_runs,               \* number of setup() calls begun so far
    loop_running,             \* asyncio loop.is_running()
    tasks,                    \* client.start tasks created on the loop
    threads,                  \* run_discord threads started
    pending_threads,          \* started threads that have not yet entered run_forever
    stream,                   \* Discord message events not yet given to on_message
    trigger,                  \* the IRC line the dispatcher is about to hand over
    last,                     \* what the most recent handler invocation did
    config,                   \* the channel_mappings value of the configuration file
    setup_calls               \* the HTTP calls of the current or last _setup_webhooks run

vars == << client_channel_mappings, memory_channel_mappings, webhooks,
           discord_hooks, setup_pc, setup_runs, loop_running, tasks, threads,
           pending_threads, stream, trigger, last, config, setup_calls >>

(***************************************************************************)
(* Bounds of the model.                                                    *)
(***************************************************************************)
MaxLen == 3        \* longest text enumerated exhaustively over Alphabet
MaxSetups == 2     \* setup() calls (plugin loads and reloads) in one behaviour
MaxStream == 1     \* Discord events in flight at once
MaxChunks == 2     \* pieces a text with custom-emoji markup is built from

(***************************************************************************)
(* Python str and re helpers.                                              *)
(***************************************************************************)
DigitSeq == << "0", "1", "2", "3", "4", "5", "6", "7", "8", "9" >>
Digits == { DigitSeq[i] : i \in 1..10 }
Letters == { "a", "b", "e", "h", "i", "l", "m", "o", "p", "s", "u" }
WordChars == Letters \cup Digits \cup { "_" }          \* \w
SpaceChars == { " ", "\n" }                              \* \s
PrefixChars == { "!", "?" }                              \* [!?]

DigitVal(c) == (CHOOSE i \in 1..10 : DigitSeq[i] = c) - 1

RECURSIVE int(_)
int(s) ==
    IF s = <<>> THEN 0
    ELSE 10 * int(SubSeq(s, 1, Len(s) - 1)) + DigitVal(s[Len(s)])

\* the index of the first character at or after i that is not in class, or
\* Len(s) + 1: where a greedy class* starting at i stops
RECURSIVE SkipClass(_, _, _)
SkipClass(s, i, class) ==
    IF i <= Len(s) /\ s[i] \in class THEN SkipClass(s, i + 1, class) ELSE i

\* valid_message_pattern, as with only '!' in the prefix class
ValidMessageBangOnly(content) ==
    ~ ( /\ Len(content) >= 1
        /\ content[1] = "!"
        /\ LET j == SkipClass(content, 2, SpaceChars)
           IN  j <= Len(content) /\ content[j] \in WordChars )

\* re.match(valid_message_pattern, content): r'^(?![!?]\s*\w+)'
ValidMessage(content) ==
    ~ ( /\ Len(content) >= 1
        /\ content[1] \in PrefixChars
        /\ LET j == SkipClass(content, 2, SpaceChars)
           IN  j <= Len(content) /\ content[j] \in WordChars )

\* the length of a match of r'<(:\w+:)\d+>' starting at index i, or 0
EmojiAt(s, i) ==
    IF i + 1 <= Len(s) /\ s[i] = "<" /\ s[i + 1] = ":"
    THEN LET w == SkipClass(s, i + 2, WordChars)
         IN  IF w > i + 2 /\ w <= Len(s) /\ s[w] = ":"
             THEN LET d == SkipClass(s, w + 1, Digits)
                  IN  IF d > w + 1 /\ d <= Len(s) /\ s[d] = ">"
                      THEN d - i + 1
                      ELSE 0
             ELSE 0
    ELSE 0

\* re.sub(r'<(:\w+:)\d+>', r'\1', content), scanning from index i
RECURSIVE EmojiSubFrom(_, _)
EmojiSubFrom(s, i) ==
    IF i > Len(s) THEN <<>>
    ELSE LET n == EmojiAt(s, i)
         IN  IF n = 0
             THEN << s[i] >> \o EmojiSubFrom(s, i + 1)
             ELSE LET w == SkipClass(s, i + 2, WordChars)
                  IN  SubSeq(s, i + 1, w) \o EmojiSubFrom(s, i + n)

\* the substitution as with count=1: only the first match is rewritten
EmojiSubFirstOnly(content) ==
    LET matches == { i \in DOMAIN content : EmojiAt(content, i) > 0 }
    IN  IF matches = {} THEN content
        ELSE LET i == CHOOSE m \in matches : \A k \in matches : m <= k
                 w == SkipClass(content, i + 2, WordChars)
             IN  SubSeq(content, 1, i - 1) \o SubSeq(content, i + 1, w)
                   \o SubSeq(content, i + EmojiAt(content, i), Len(content))

EmojiSub(content) == EmojiSubFrom(content, 1)

\* ' '.join(extra)
RECURSIVE Join(_)
Join(extra) ==
    IF extra = <<>> THEN <<>>
    ELSE IF Len(extra) = 1 THEN extra[1]
    ELSE extra[1] \o << " " >> \o Join(Tail(extra))

\* content.replace('\n', ' ')
ReplaceNewlines(content) ==
    [ i \in 1..Len(content) |-> IF content[i] = "\n" THEN " " ELSE content[i] ]

\* the mutation of Strip that strips nothing
StripNothing(content) == content

\* content.strip()
Strip(content) ==
    LET first == SkipClass(content, 1, SpaceChars)
        keep == { i \in 1..Len(content) : content[i] \notin SpaceChars }
    IN  IF keep = {} THEN <<>>
        ELSE SubSeq(content, first,
                    CHOOSE i \in keep : \A k \in keep : k <= i)

\* re.match(r'^_.+_$', content): '.' matches anything but a newline, and '$'
\* matches at the end or just before a final newline
ActionPattern(content) ==
    \E e \in { Len(content), Len(content) - 1 } :
        /\ e >= 3
        /\ e = Len(content) \/ content[Len(content)] = "\n"
        /\ content[1] = "_"
        /\ content[e] = "_"
        /\ \A i \in 2..(e - 1) : content[i] # "\n"

\* formatting.bold(text), formatting.color(text, fg) of sopel
bold(text) == << "\\x02" >> \o text \o << "\\x02" >>
color(text, fg) == << "\\x03", fg >> \o text \o << "\\x03" >>
LIGHT_CYAN == "11"

(***************************************************************************)
(* Python dict helpers.                                                    *)
(***************************************************************************)
EmptyDict == <<>>
Keys(d) == { d[i][1] : i \in DOMAIN d }
Has(d, k) == k \in Keys(d)
Get(d, k, default) ==
    IF Has(d, k) THEN d[CHOOSE i \in DOMAIN d : d[i][1] = k][2] ELSE default
Put(d, k, v) ==
    IF Has(d, k)
    THEN [ i \in DOMAIN d |-> IF d[i][1] = k THEN << k, v >> ELSE d[i] ]
    ELSE Append(d, << k, v >>)

(***************************************************************************)
(* The configuration and the Discord side.                                 *)
(***************************************************************************)
\* value.split(sep) for a one-character sep
RECURSIVE Split(_, _)
Split(value, sep) ==
    IF \A i \in DOMAIN value : value[i] # sep
    THEN << value >>
    ELSE LET at == CHOOSE i \in DOMAIN value :
                     value[i] = sep /\ \A k \in 1..(i - 1) : value[k] # sep
         IN  << SubSeq(value, 1, at - 1) >>
               \o Split(SubSeq(value, at + 1, Len(value)), sep)

\* DictAttribute.parse(value) over the items pairs: 'k, v = item.split(':')'
\* is a ValueError unless the item has exactly one colon
RECURSIVE ParseItems(_)
ParseItems(pairs) ==
    IF pairs = <<>> THEN [ error |-> "", value |-> EmptyDict ]
    ELSE LET before == ParseItems(SubSeq(pairs, 1, Len(pairs) - 1))
             kv == Split(pairs[Len(pairs)], ":")
         IN  IF before.error # "" THEN before
             ELSE IF Len(kv) # 2
                  THEN [ error |-> "ValueError", value |-> EmptyDict ]
                  ELSE [ error |-> "",
                         value |-> Put(before.value, Strip(kv[1]), Strip(kv[2])) ]

\* DictAttribute.parse(value)
parse(value) == ParseItems(Split(value, ","))

\* the channel_mappings line of the configuration the bridge is run with
RawConfig ==
    << "1", "0", ":", "#", "a", ",", "2", "0", ":", "#", "b" >>

\* bot.config.discord.channel_mappings as DictAttribute.parse returns it:
\* str keys (Discord channel ids) and str values (IRC channel names)
ConfigMappings == parse(RawConfig).value

DiscordToken == "bot-token"                \* bot.config.discord.discord_token
HOOK_NAME == "discord-irc"

MappedChannels == { int(ConfigMappings[i][1]) : i \in DOMAIN ConfigMappings }
UnmappedChannel == CHOOSE c \in 1..100 : c \notin MappedChannels
DiscordChannels == MappedChannels \cup { UnmappedChannel }
IrcChannels ==
    { ConfigMappings[i][2] : i \in DOMAIN ConfigMappings } \cup { << "#", "x" >> }

\* webhooks that may already exist on the Discord side
HookA == [ id |-> << "4", "1" >>, token |-> "tokA", name |-> HOOK_NAME ]
HookB == [ id |-> << "4", "2" >>, token |-> "tokB", name |-> HOOK_NAME ]
HookOther == [ id |-> << "4", "3" >>, token |-> "tokO", name |-> "other" ]
\* the webhook Discord answers a creation POST with, for a channel that
\* lists n webhooks so far
NewHook(channel_id, n) ==
    [ id |-> << "5", DigitSeq[(channel_id \div 10) + 1], DigitSeq[n + 1] >>,
      token |-> "tokN", name |-> HOOK_NAME ]

\* a Discord user, who is no webhook
UserId == 77
UserName == << "b", "o" >>
IrcNick == << "a", "l" >>

(***************************************************************************)
(* HTTP, as the requests library reports it.                               *)
(***************************************************************************)
HttpOutcomes == { "2xx", "4xx", "connection_error", "timeout" }
\* the exception a call with this outcome ends in, "" for none:
\* requests.get/post raise ConnectionError or Timeout themselves,
\* r.raise_for_status() raises HTTPError on a non-2xx response
Raised(outcome) ==
    CASE outcome = "2xx" -> ""
      [] outcome = "4xx" -> "HTTPError"
      [] outcome = "connection_error" -> "ConnectionError"
      [] outcome = "timeout" -> "Timeout"
\* 'except HTTPError': ConnectionError and Timeout are RequestExceptions
\* but no HTTPErrors
CaughtByExceptHTTPError(exc) == exc = "HTTPError"

(***************************************************************************)
(* on_message(message): Discord -> IRC.                                    *)
(***************************************************************************)
\* the comparison without int(): in Python an int never equals a str
AuthorIsNotHookNoInt(message, hook) == TRUE

\* message.author.id != int(hook['id'])
AuthorIsNotHook(message, hook) == message.author_id # int(hook.id)

\* client.irc_bot.memory['webhooks'].get(message.channel.id, {})
HookFor(channel_id) == Get(webhooks, channel_id, EmptyDict)

\* the condition of the outer if
Relayed(message, hook) ==
    /\ hook # EmptyDict
    /\ Has(client_channel_mappings, message.channel_id)
    /\ AuthorIsNotHook(message, hook)
    /\ ValidMessage(message.clean_content)

\* content as lines 56-64 leave it
Flatten(content, attachments) ==
    IF attachments # <<>>
    THEN Join((IF content # <<>> THEN << content >> ELSE <<>>) \o attachments)
    ELSE content

Normalize(message) ==
    Strip(ReplaceNewlines(
        Flatten(EmojiSub(message.clean_content), message.attachments)))

\* the action call as with content instead of content[1:-1]
ActionCallKeepingMarkers(message, content, irc_channel) ==
    [ call |-> "action",
      message |-> message.author_name \o << " " >> \o content,
      recipient |-> irc_channel ]

ActionCall(message, content, irc_channel) ==
    [ call |-> "action",
      message |-> message.author_name \o << " " >>
                    \o SubSeq(content, 2, Len(content) - 1),
      recipient |-> irc_channel ]

SayCall(message, content, irc_channel) ==
    [ call |-> "say",
      message |-> << "<" >> \o color(bold(message.author_name), LIGHT_CYAN)
                    \o << ">", " " >> \o content,
      recipient |-> irc_channel ]

\* the test for an action, without 'and not message.attachments'
IsActionIgnoringAttachments(message, content) == ActionPattern(content)

\* re.match(r'^_.+_$', content) and not message.attachments
IsAction(message, content) ==
    ActionPattern(content) /\ message.attachments = <<>>

\* the dispatch with the else lost: an action is also said
DispatchNoElse(message, content, irc_channel) ==
    IF content # <<>>
    THEN (IF IsAction(message, content)
          THEN << ActionCall(message, content, irc_channel) >>
          ELSE <<>>) \o << SayCall(message, content, irc_channel) >>
    ELSE <<>>

\* lines 65-76: the calls on client.irc_bot
Dispatch(message, content, irc_channel) ==
    IF content # <<>>
    THEN IF IsAction(message, content)
         THEN << ActionCall(message, content, irc_channel) >>
         ELSE << SayCall(message, content, irc_channel) >>
    ELSE <<>>

\* the exception on_message ends in, "" for none: reading an attribute the
\* event lacks is an AttributeError, at line 44 (clean_content), line 45
\* (author), line 51 (channel) or, once the outer if holds, line 57
\* (attachments); nothing in on_message catches it
OnMessageRaises(message) ==
    IF message.missing \cap { "clean_content", "author", "channel" } # {}
    THEN "AttributeError"
    ELSE IF /\ "attachments" \in message.missing
            /\ Relayed(message, HookFor(message.channel_id))
         THEN "AttributeError"
         ELSE ""

\* the calls on_message makes on client.irc_bot for this message
on_message(message) ==
    LET hook == HookFor(message.channel_id)
    IN  IF OnMessageRaises(message) # "" THEN <<>>
        ELSE IF Relayed(message, hook)
        THEN Dispatch(message, Normalize(message),
                      Get(client_channel_mappings, message.channel_id, <<>>))
        ELSE <<>>

NoCall == [ op |-> "none", input |-> <<>>, hook |-> EmptyDict,
            sends |-> <<>>, posts |-> <<>>, outcome |-> "", raised |-> "" ]

OnMessage ==
    /\ loop_running
    /\ tasks >= 1
    /\ stream # <<>>
    /\ LET message == Head(stream)
       IN  last' = [ op |-> "on_message", input |-> message,
                     hook |-> HookFor(message.channel_id),
                     sends |-> on_message(message),
                     posts |-> <<>>, outcome |-> "",
                     raised |-> OnMessageRaises(message) ]
    /\ stream' = Tail(stream)
    /\ UNCHANGED << client_channel_mappings, memory_channel_mappings, webhooks,
                    discord_hooks, setup_pc, setup_runs, loop_running, tasks,
                    threads, pending_threads, trigger, config, setup_calls >>

(***************************************************************************)
(* irc_message(bot, trigger): IRC -> Discord.                              *)
(***************************************************************************)
NoTrigger == <<>>

\* @module.require_chanmsg and @module.rule(valid_message_pattern): the
\* dispatcher calls irc_message only for these triggers
Dispatched(t) == ~ t.is_privmsg /\ ValidMessage(t.text)

\* bot.memory['channel_mappings'][trigger.sender] under the outer if, 0 when
\* the if fails (no Discord channel has id 0)
DiscordChannelOf(t) ==
    IF ~ t.is_privmsg /\ Has(memory_channel_mappings, t.sender)
    THEN Get(memory_channel_mappings, t.sender, 0)
    ELSE 0

\* the content with the ACTION intent ignored
DeliveryContentPlain(t) == t.text

\* content: trigger.match.string, wrapped as _..._ for an ACTION
DeliveryContent(t) ==
    IF t.intent = "ACTION" THEN << "_" >> \o t.text \o << "_" >> ELSE t.text

\* the requests.post call of lines 223-228
DeliveryPost(t, hook) ==
    [ method |-> "POST",
      url |-> << "webhooks", hook.id, hook.token >>,
      headers |-> [ Authorization |-> << "Bot", DiscordToken >> ],
      json |-> [ content |-> DeliveryContent(t),
                 username |-> t.nick \o << " ", "(", "I", "R", "C", ")" >> ] ]

\* the hook test, as without 'if hook:'
HasHookAlways(hook) == TRUE

\* if hook:
HasHook(hook) == hook # EmptyDict

\* lines 210-231: the POST, and the exception that leaves irc_message.
\* hook['id'] on a dict without that key is a KeyError, which 'except
\* HTTPError' does not catch
Deliver(t, hook, outcome) ==
    IF "id" \notin DOMAIN hook
    THEN [ posts |-> <<>>, raised |-> "KeyError" ]
    ELSE [ posts |-> << DeliveryPost(t, hook) >>,
           raised |-> IF CaughtByExceptHTTPError(Raised(outcome))
                      THEN "" ELSE Raised(outcome) ]

\* the HTTP calls irc_message makes for this trigger when the POST, if any,
\* ends with this outcome, and the exception it raises ("" for none)
irc_message(t, outcome) ==
    LET discord_channel == DiscordChannelOf(t)
        hook == HookFor(discord_channel)
    IN  IF Dispatched(t) /\ discord_channel # 0 /\ HasHook(hook)
        THEN Deliver(t, hook, outcome)
        ELSE [ posts |-> <<>>, raised |-> "" ]

\* the message event Discord emits for a delivered webhook post: its author
\* id is the webhook's id (lines 47-50)
Echo(post, channel_id) ==
    [ author_id |-> int(post.url[2]),
      author_name |-> post.json.username,
      channel_id |-> channel_id,
      clean_content |-> post.json.content,
      attachments |-> <<>>,
      echo |-> TRUE,
      missing |-> {} ]

IrcMessage ==
    /\ setup_pc.loaded
    /\ trigger # NoTrigger
    /\ Len(stream) < MaxStream
    /\ \E outcome \in HttpOutcomes :
         LET done == irc_message(trigger, outcome)
         IN  /\ last' = [ op |-> "irc_message", input |-> trigger,
                          hook |-> HookFor(DiscordChannelOf(trigger)),
                          sends |-> <<>>, posts |-> done.posts,
                          outcome |-> IF done.posts # <<>>
                                      THEN outcome ELSE "",
                          raised |-> done.raised ]
             /\ stream' = IF done.posts # <<>> /\ outcome = "2xx"
                          THEN Append(stream, Echo(done.posts[1],
                                                   DiscordChannelOf(trigger)))
                          ELSE stream
    /\ trigger' = NoTrigger
    /\ UNCHANGED << client_channel_mappings, memory_channel_mappings, webhooks,
                    discord_hooks, setup_pc, setup_runs, loop_running, tasks,
                    threads, pending_threads, config, setup_calls >>

(***************************************************************************)
(* setup(bot), _setup_webhooks(bot) and run_discord(loop).                 *)
(***************************************************************************)
\* { int(k): v for k, v in bot.config.discord.channel_mappings.items() }
RECURSIVE IntKeys(_)
IntKeys(items) ==
    IF items = <<>> THEN EmptyDict
    ELSE LET item == items[Len(items)]
         IN  Put(IntKeys(SubSeq(items, 1, Len(items) - 1)),
                 int(item[1]), item[2])

\* { v: k for k, v in client.channel_mappings.items() }
RECURSIVE Invert(_)
Invert(items) ==
    IF items = <<>> THEN EmptyDict
    ELSE LET item == items[Len(items)]
         IN  Put(Invert(SubSeq(items, 1, Len(items) - 1)), item[2], item[1])

Idle(loaded, raised) ==
    [ at |-> "idle", i |-> 0, listing |-> <<>>, j |-> 0,
      loaded |-> loaded, raised |-> raised ]

\* the for loop of line 130 moves to its next item, or _setup_webhooks returns
NextChannel ==
    IF setup_pc.i < Len(memory_channel_mappings)
    THEN [ setup_pc EXCEPT !.at = "get", !.i = @ + 1, !.listing = <<>>, !.j = 0 ]
    ELSE [ setup_pc EXCEPT !.at = "start", !.i = 0, !.listing = <<>>, !.j = 0 ]

\* the channel the for loop is at
channel_id == memory_channel_mappings[setup_pc.i][2]

\* headers of lines 127-129
ProvisionHeaders == [ Authorization |-> << "Bot", DiscordToken >> ]

\* requests.get of line 132 and how it ended
ListingGet(channel, outcome) ==
    [ method |-> "GET", channel |-> channel, headers |-> ProvisionHeaders,
      outcome |-> outcome ]

\* requests.post of lines 143-147 and how it ended
CreationPost(channel, outcome) ==
    [ method |-> "POST", channel |-> channel, headers |-> ProvisionHeaders,
      outcome |-> outcome ]

\* line 126 left out: the registry of the previous run is kept
KeptRegistry == webhooks

\* bot.memory['webhooks'] = {} of line 126
ClearedRegistry == EmptyDict

\* lines 180-189 and 126: the configuration is parsed, the tables are rebuilt
\* and the registry is emptied; a ValueError of parse leaves setup at line 183
SetupBegin ==
    /\ setup_pc.at = "idle"
    /\ setup_runs < MaxSetups
    /\ setup_runs' = setup_runs + 1
    /\ setup_calls' = <<>>
    /\ LET parsed == parse(config)
       IN  IF parsed.error # ""
           THEN /\ setup_pc' = Idle(FALSE, parsed.error)
                /\ UNCHANGED << client_channel_mappings,
                                memory_channel_mappings, webhooks >>
           ELSE /\ client_channel_mappings' = IntKeys(parsed.value)
                /\ memory_channel_mappings' = Invert(client_channel_mappings')
                /\ webhooks' = ClearedRegistry
                /\ setup_pc' =
                     IF memory_channel_mappings' # <<>>
                     THEN [ setup_pc EXCEPT !.at = "get", !.i = 1, !.raised = "" ]
                     ELSE [ setup_pc EXCEPT !.at = "start", !.raised = "" ]
    /\ UNCHANGED << discord_hooks, loop_running, tasks, threads,
                    pending_threads, stream, trigger, last, config >>

\* lines 132-137: the listing GET
SetupGet ==
    /\ setup_pc.at = "get"
    /\ \E outcome \in HttpOutcomes :
         LET exc == Raised(outcome)
         IN  /\ setup_calls' = Append(setup_calls, ListingGet(channel_id, outcome))
             /\ IF outcome \in { "connection_error", "timeout" }
                THEN \* requests.get raises: line 136 is not reached, and the
                     \* exception leaves _setup_webhooks and setup
                     /\ setup_pc' = Idle(FALSE, exc)
                     /\ UNCHANGED webhooks
                ELSE /\ webhooks' = Put(webhooks, channel_id, EmptyDict)
                     /\ setup_pc' =
                           IF CaughtByExceptHTTPError(exc)
                           THEN NextChannel
                           ELSE [ setup_pc EXCEPT
                                    !.at = "scan",
                                    !.listing = discord_hooks[channel_id],
                                    !.j = 1 ]
    /\ UNCHANGED << client_channel_mappings, memory_channel_mappings,
                    discord_hooks, setup_runs, loop_running, tasks, threads,
                    pending_threads, stream, trigger, last, config >>

\* lines 138-140: one iteration of 'for hook in r.json()'
SetupScan ==
    /\ setup_pc.at = "scan"
    /\ setup_pc.j <= Len(setup_pc.listing)
    /\ LET hook == setup_pc.listing[setup_pc.j]
       IN  webhooks' = IF hook.name = HOOK_NAME
                       THEN Put(webhooks, channel_id, hook)
                       ELSE webhooks
    /\ setup_pc' = [ setup_pc EXCEPT !.j = @ + 1 ]
    /\ UNCHANGED << client_channel_mappings, memory_channel_mappings,
                    discord_hooks, setup_runs, loop_running, tasks, threads,
                    pending_threads, stream, trigger, last, config,
                    setup_calls >>

\* lines 141-152: the creation POST when no hook of that name was listed
SetupCreate ==
    /\ setup_pc.at = "scan"
    /\ setup_pc.j > Len(setup_pc.listing)
    /\ IF Get(webhooks, channel_id, EmptyDict) # EmptyDict
       THEN /\ setup_pc' = NextChannel
            /\ UNCHANGED << webhooks, discord_hooks, setup_calls >>
       ELSE \E outcome \in HttpOutcomes :
              LET exc == Raised(outcome)
                  hook == NewHook(channel_id, Len(discord_hooks[channel_id]))
              IN  /\ setup_calls' =
                        Append(setup_calls, CreationPost(channel_id, outcome))
                  /\ IF exc = ""
                     THEN /\ discord_hooks' =
                                [ discord_hooks EXCEPT
                                    ![channel_id] = Append(@, hook) ]
                          /\ webhooks' = Put(webhooks, channel_id, hook)
                          /\ setup_pc' = NextChannel
                     ELSE /\ setup_pc' = IF CaughtByExceptHTTPError(exc)
                                         THEN NextChannel
                                         ELSE Idle(FALSE, exc)
                          /\ UNCHANGED << webhooks, discord_hooks >>
    /\ UNCHANGED << client_channel_mappings, memory_channel_mappings,
                    setup_runs, loop_running, tasks, threads,
                    pending_threads, stream, trigger, last, config >>

\* not loop.is_running()
NotStartedYet == ~ loop_running

\* lines 193-197: the start-once guard; setup returns
SetupStart ==
    /\ setup_pc.at = "start"
    /\ IF NotStartedYet
       THEN /\ tasks' = tasks + 1
            /\ threads' = threads + 1
            /\ pending_threads' = pending_threads + 1
       ELSE UNCHANGED << tasks, threads, pending_threads >>
    /\ setup_pc' = Idle(TRUE, "")
    /\ UNCHANGED << client_channel_mappings, memory_channel_mappings, webhooks,
                    discord_hooks, setup_runs, loop_running, stream, trigger,
                    last, config, setup_calls >>

\* run_discord(loop) in a started thread: loop.run_forever() makes the loop
\* running, or raises RuntimeError in that thread if it already runs
RunDiscord ==
    /\ pending_threads > 0
    /\ pending_threads' = pending_threads - 1
    /\ loop_running' = TRUE
    /\ UNCHANGED << client_channel_mappings, memory_channel_mappings, webhooks,
                    discord_hooks, setup_pc, setup_runs, tasks, threads,
                    stream, trigger, last, config, setup_calls >>

(***************************************************************************)
(* What the two platforms send.                                            *)
(***************************************************************************)
Alphabet == { "!", "?", "a", "_", " ", "\n" }
SampleTexts ==
    { << "!", "h", "e", "l", "p" >>,
      << "?", "h", "e", "l", "p" >>,
      << "h", "e", "l", "l", "o" >>,
      << "!", " ", " ", "a" >>,
      << "<", ":", "a", ":", "1", ">" >>,
      << "<", ":", "a", ":", "1", ">", "<", ":", "b", ":", "2", ">" >>,
      << "_", "<", ":", "a", ":", "1", ">", "_" >>,
      << "<", ":", "a", ":", ">" >>,
      << "_", "a", " ", "b", "_" >>,
      << "_", "a", "_", "\n" >>,
      << "<", ":", "s", "m", "i", "l", "e", ":",
         "1", "2", "3", "4", "5", "6", "7", "8", "9", ">" >> }

\* pieces of text with and around custom-emoji markup
Chunks ==
    { << "<", ":", "a", ":", "1", ">" >>,
      << "<", ":", "a", "b", ":", "2", "2", ">" >>,
      << "<", ":", "a", ":", ">" >>,
      << "a" >>, << " " >>, << "<" >> }
RECURSIVE Concat(_)
Concat(pieces) ==
    IF pieces = <<>> THEN <<>> ELSE pieces[1] \o Concat(Tail(pieces))
ChunkTexts ==
    { Concat(pieces) : pieces \in UNION { [ 1..k -> Chunks ] : k \in 0..MaxChunks } }

Texts ==
    UNION { [ 1..k -> Alphabet ] : k \in 0..MaxLen }
      \cup SampleTexts \cup ChunkTexts

Url == << "u" >>                           \* attachment.url
UrlUnderscore == << "u", "_" >>            \* a url that ends with an underscore
AttachmentLists == { <<>>, << Url >>, << Url, UrlUnderscore >> }
AuthorIds == { UserId, int(HookA.id), int(HookB.id) }
Senders == IrcChannels \cup { IrcNick }   \* trigger.sender: a channel or a nick

Event(author, channel, text, attachments) ==
    [ author_id |-> author, author_name |-> UserName, channel_id |-> channel,
      clean_content |-> text, attachments |-> attachments, echo |-> FALSE,
      missing |-> {} ]
Trigger(sender, text, intent) ==
    [ nick |-> IrcNick, sender |-> sender, is_privmsg |-> sender \notin IrcChannels,
      text |-> text, intent |-> intent ]

Events ==
    { Event(a, c, t, u) :
        a \in AuthorIds, c \in DiscordChannels, t \in Texts, u \in AttachmentLists }
Triggers ==
    { Trigger(s, t, i) : s \in Senders, t \in Texts, i \in { "", "ACTION" } }

\* events that lack attributes on_message reads
Attributes == { "clean_content", "author", "channel", "attachments" }
MalformedEvents ==
    { [ Event(UserId, c, t, u) EXCEPT !.missing = absent ] :
        c \in DiscordChannels, t \in { << "a" >>, << "!", "a" >> },
        u \in { <<>>, << Url >> }, absent \in (SUBSET Attributes) \ { {} } }

\* the few messages sent while setup runs
RaceTexts == { << "a" >> }
RaceEvents ==
    { Event(UserId, c, t, <<>>) : c \in DiscordChannels, t \in RaceTexts }
RaceTriggers ==
    { Trigger(s, t, "") : s \in Senders, t \in RaceTexts }

\* a Discord user posts in a channel the bot sees
DiscordMessage ==
    /\ loop_running
    /\ tasks >= 1
    /\ Len(stream) < MaxStream
    /\ \E m \in RaceEvents : stream' = Append(stream, m)
    /\ UNCHANGED << client_channel_mappings, memory_channel_mappings, webhooks,
                    discord_hooks, setup_pc, setup_runs, loop_running, tasks,
                    threads, pending_threads, trigger, last, config,
                    setup_calls >>

\* an IRC line reaches the dispatcher
IrcLine ==
    /\ setup_pc.loaded
    /\ trigger = NoTrigger
    /\ \E t \in RaceTriggers : trigger' = t
    /\ UNCHANGED << client_channel_mappings, memory_channel_mappings, webhooks,
                    discord_hooks, setup_pc, setup_runs, loop_running, tasks,
                    threads, pending_threads, stream, last, config,
                    setup_calls >>

(***************************************************************************)
(* Spec: the plugin from its first load, with reloads, the background      *)
(* thread and both handlers interleaved.                                   *)
(***************************************************************************)
InitialListings == { <<>>, << HookA >>, << HookA, HookB >>, << HookOther >> }

Init ==
    /\ client_channel_mappings = EmptyDict
    /\ memory_channel_mappings = EmptyDict
    /\ webhooks = EmptyDict
    /\ discord_hooks \in [ MappedChannels -> InitialListings ]
    /\ \A c \in MappedChannels :
         c # int(ConfigMappings[1][1]) => discord_hooks[c] = <<>>
    /\ setup_pc = Idle(FALSE, "")
    /\ setup_runs = 0
    /\ loop_running = FALSE
    /\ tasks = 0
    /\ threads = 0
    /\ pending_threads = 0
    /\ stream = <<>>
    /\ trigger = NoTrigger
    /\ last = NoCall
    /\ config = RawConfig
    /\ setup_calls = <<>>

Next ==
    \/ SetupBegin
    \/ SetupGet
    \/ SetupScan
    \/ SetupCreate
    \/ SetupStart
    \/ RunDiscord
    \/ DiscordMessage
    \/ IrcLine
    \/ OnMessage
    \/ IrcMessage

Spec == Init /\ [][Next]_vars

(***************************************************************************)
(* RelaySpec: the two handlers as functions of their input.  It starts in  *)
(* a state Spec reaches (the bridge started, the registry as a setup run   *)
(* leaves it or, for the last registry, as a reload has just emptied it)   *)
(* with one message or one trigger drawn from the full input sets.         *)
(***************************************************************************)
Registries ==
    { [ webhooks |-> << << 10, HookA >>, << 20, NewHook(20, 0) >> >>,
        discord_hooks |-> (10 :> << HookA >> @@ 20 :> << NewHook(20, 0) >>),
        setup_calls |-> << ListingGet(10, "2xx"), ListingGet(20, "2xx"),
                           CreationPost(20, "2xx") >> ],
      [ webhooks |-> << << 10, HookB >>, << 20, EmptyDict >> >>,
        discord_hooks |-> (10 :> << HookA, HookB >> @@ 20 :> <<>>),
        setup_calls |-> << ListingGet(10, "2xx"), ListingGet(20, "4xx") >> ],
      [ webhooks |-> << << 10, EmptyDict >>, << 20, EmptyDict >> >>,
        discord_hooks |-> (10 :> << HookOther >> @@ 20 :> <<>>),
        setup_calls |-> << ListingGet(10, "4xx"), ListingGet(20, "4xx") >> ],
      [ webhooks |-> EmptyDict,
        discord_hooks |-> (10 :> <<>> @@ 20 :> <<>>),
        setup_calls |-> <<>> ] }

\* the state without its input: the bridge started, no handler called yet
Settled(registry) ==
    /\ client_channel_mappings = IntKeys(ConfigMappings)
    /\ memory_channel_mappings = Invert(client_channel_mappings)
    /\ webhooks = registry.webhooks
    /\ discord_hooks = registry.discord_hooks
    /\ setup_calls = registry.setup_calls
    /\ config = RawConfig
    /\ setup_pc = IF webhooks = EmptyDict
                  THEN [ Idle(TRUE, "") EXCEPT !.at = "get", !.i = 1 ]
                  ELSE Idle(TRUE, "")
    /\ setup_runs = IF webhooks = EmptyDict THEN 2 ELSE 1
    /\ loop_running = TRUE
    /\ tasks = 1
    /\ threads = 1
    /\ pending_threads = 0
    /\ last = NoCall

RelayInit ==
    /\ \E registry \in Registries : Settled(registry)
    /\ \/ stream = <<>> /\ trigger \in Triggers
       \/ trigger = NoTrigger
          /\ \E m \in Events \cup MalformedEvents : stream = << m >>

RelayNext ==
    \/ OnMessage
    \/ IrcMessage

RelaySpec == RelayInit /\ [][RelayNext]_vars

(***************************************************************************)
(* ConfigSpec: setup and its reloads over the configurations an operator   *)
(* may write for the two channels.                                         *)
(***************************************************************************)
Configs ==
    { RawConfig,
      \* "10:#a,10:#b": one Discord channel id in two pairs
      << "1", "0", ":", "#", "a", ",", "1", "0", ":", "#", "b" >>,
      \* "10:#a,20:#a": one IRC channel name in two pairs
      << "1", "0", ":", "#", "a", ",", "2", "0", ":", "#", "a" >>,
      \* "10:#a, 20 : #b": blanks around the items
      << "1", "0", ":", "#", "a", ",", " ", "2", "0", " ", ":", " ", "#", "b" >>,
      \* "10#a": no colon
      << "1", "0", "#", "a" >>,
      \* "10:#a": one pair
      << "1", "0", ":", "#", "a" >> }

ConfigInit ==
    /\ client_channel_mappings = EmptyDict
    /\ memory_channel_mappings = EmptyDict
    /\ webhooks = EmptyDict
    /\ discord_hooks \in [ MappedChannels -> { <<>>, << HookA >> } ]
    /\ setup_pc = Idle(FALSE, "")
    /\ setup_runs = 0
    /\ loop_running = FALSE
    /\ tasks = 0
    /\ threads = 0
    /\ pending_threads = 0
    /\ stream = <<>>
    /\ trigger = NoTrigger
    /\ last = NoCall
    /\ config \in Configs
    /\ setup_calls = <<>>

ConfigNext ==
    \/ SetupBegin
    \/ SetupGet
    \/ SetupScan
    \/ SetupCreate
    \/ SetupStart
    \/ RunDiscord

ConfigSpec == ConfigInit /\ [][ConfigNext]_vars

(***************************************************************************)
(* Properties.                                                             *)
(***************************************************************************)
\* the IRC channel the configuration pairs with this Discord channel id
ConfiguredIrcChannels(c) ==
    { ConfigMappings[i][2] :
        i \in { k \in DOMAIN ConfigMappings : int(ConfigMappings[k][1]) = c } }
\* the Discord channel ids the configuration pairs with this IRC channel
ConfiguredDiscordChannels(l) ==
    { int(ConfigMappings[i][1]) :
        i \in { k \in DOMAIN ConfigMappings : ConfigMappings[k][2] = l } }

\* C1: on_message makes no say/action call for a message whose author id is
\* the number that the cached webhook's id string spells, whatever its text
\* and attachments.
C1_NoSendForHookAuthor ==
    ( /\ last.op = "on_message"
      /\ last.hook # EmptyDict
      /\ last.input.author_id = int(last.hook.id) )
    => last.sends = <<>>

\* C1 witness: a message by the cached webhook, on a mapped channel, with
\* plain text and an attachment, has been handled.
C1_Witness ==
    /\ last.op = "on_message"
    /\ last.hook = HookB
    /\ last.input.author_id = 42
    /\ last.input.channel_id \in MappedChannels
    /\ last.input.clean_content = << "h", "e", "l", "l", "o" >>
    /\ last.input.attachments # <<>>

\* C2: a message that irc_message delivered through a webhook is never sent
\* back to IRC by on_message, in any interleaving with setup.
C2_NoFeedbackLoop ==
    (last.op = "on_message" /\ last.input.echo) => last.sends = <<>>

\* C3: at most one client.start task and at most one run_discord thread are
\* ever started.
C3_SingleStart == tasks <= 1 /\ threads <= 1

\* the message on_message handled is one only its text can have discarded:
\* every attribute present, a mapped channel, a cached webhook, an author
\* who is not that webhook
PastLoopCheck ==
    /\ last.op = "on_message"
    /\ last.input.missing = {}
    /\ last.hook # EmptyDict
    /\ ConfiguredIrcChannels(last.input.channel_id) # {}
    /\ last.input.author_id # int(last.hook.id)

\* C4: a message whose raw text is '!' or '?' followed by a word character
\* causes no say/action call, with or without attachments; the text "hello"
\* from a non-webhook author on a mapped channel with a cached webhook is
\* sent to IRC.
C4_CommandFilter ==
    last.op = "on_message" =>
        LET text == last.input.clean_content
        IN  /\ ( /\ Len(text) >= 2
                 /\ text[1] \in { "!", "?" }
                 /\ text[2] \in WordChars )
               => last.sends = <<>>
            /\ (PastLoopCheck /\ text = << "h", "e", "l", "l", "o" >>)
               => Len(last.sends) = 1

\* C4 witness: "!help" with an attachment, which nothing but the command
\* filter discards, has been handled.
C4_Witness ==
    /\ PastLoopCheck
    /\ last.input.clean_content = << "!", "h", "e", "l", "p" >>
    /\ last.input.attachments # <<>>
    /\ last.sends = <<>>

\* C5: a message that is not discarded (mapped channel, cached webhook,
\* author not the webhook, text not command-like, normalized text not empty)
\* causes exactly one call, an action or a say, to the IRC channel the
\* configuration pairs with its Discord channel; any other message causes
\* none.
C5_ExactlyOneSend ==
    last.op = "on_message" =>
        IF /\ PastLoopCheck
           /\ ValidMessage(last.input.clean_content)
           /\ Normalize(last.input) # <<>>
        THEN /\ Len(last.sends) = 1
             /\ last.sends[1].call \in { "action", "say" }
             /\ last.sends[1].recipient
                  \in ConfiguredIrcChannels(last.input.channel_id)
        ELSE last.sends = <<>>

\* C5 witness: an action has been sent to the IRC channel of the second
\* mapping.
C5_Witness ==
    /\ last.op = "on_message"
    /\ Len(last.sends) = 1
    /\ last.sends[1].call = "action"
    /\ last.sends[1].recipient = ConfigMappings[2][2]

\* text is wrapped in a pair of emphasis markers: _..._ around something
Wrapped(text) ==
    Len(text) >= 3 /\ text[1] = "_" /\ text[Len(text)] = "_"
\* s ends with t
EndsWith(s, t) ==
    Len(s) >= Len(t) /\ SubSeq(s, Len(s) - Len(t) + 1, Len(s)) = t
\* t occurs in s
Contains(s, t) ==
    \E i \in 1..(Len(s) - Len(t) + 1) : SubSeq(s, i, i + Len(t) - 1) = t

\* C6: the call is an action, of the author's name and the text without its
\* two markers, exactly when the normalized text is wrapped in markers and
\* the message has no attachments; every other call is a say of the
\* normalized text with the author's name before it.
C6_ActionIff ==
    (last.op = "on_message" /\ last.sends # <<>>) =>
        LET text == Normalize(last.input)
            name == last.input.author_name
            sent == last.sends[1]
        IN  IF Wrapped(text) /\ last.input.attachments = <<>>
            THEN /\ sent.call = "action"
                 /\ sent.message =
                      name \o << " " >> \o SubSeq(text, 2, Len(text) - 1)
            ELSE /\ sent.call = "say"
                 /\ EndsWith(sent.message, << " " >> \o text)
                 /\ Contains(SubSeq(sent.message, 1,
                                    Len(sent.message) - Len(text) - 1), name)

\* C6 witness: "_a b_" without attachments has been sent as an action.
C6_Witness ==
    /\ last.op = "on_message"
    /\ last.input.clean_content = << "_", "a", " ", "b", "_" >>
    /\ last.input.attachments = <<>>
    /\ last.sends # <<>>
    /\ last.sends[1].call = "action"

\* the part of a sent message after the name that on_message puts first
Body(message, sent) ==
    IF sent.call = "action"
    THEN SubSeq(sent.message, Len(message.author_name) + 2, Len(sent.message))
    ELSE LET head == << "<" >> \o color(bold(message.author_name), LIGHT_CYAN)
                       \o << ">", " " >>
         IN  SubSeq(sent.message, Len(head) + 1, Len(sent.message))

\* C7: a message without attachments whose text is empty or only newlines
\* and blanks causes no call, and no call has an empty body.
C7_NoEmptySend ==
    last.op = "on_message" =>
        /\ ( /\ last.input.attachments = <<>>
             /\ \A i \in DOMAIN last.input.clean_content :
                  last.input.clean_content[i] \in { " ", "\n" } )
           => last.sends = <<>>
        /\ \A i \in DOMAIN last.sends :
             Body(last.input, last.sends[i]) # <<>>

\* C7 witness: a text of a newline and a blank, which only the emptiness
\* test discards, has been handled.
C7_Witness ==
    /\ PastLoopCheck
    /\ last.input.clean_content = << "\n", " " >>
    /\ last.input.attachments = <<>>
    /\ last.sends = <<>>

\* C8: irc_message posts only for a channel message whose channel the
\* configuration maps and whose Discord channel had a non-empty registry
\* entry; for an unmapped channel, or an absent or empty entry, it makes no
\* HTTP call and raises nothing.
C8_PostOnlyWithHook ==
    last.op = "irc_message" =>
        /\ last.posts # <<>> =>
             /\ ~ last.input.is_privmsg
             /\ ConfiguredDiscordChannels(last.input.sender) # {}
             /\ last.hook # EmptyDict
        /\ ( \/ ConfiguredDiscordChannels(last.input.sender) = {}
             \/ last.hook = EmptyDict )
           => (last.posts = <<>> /\ last.raised = "")

\* C8 witness: a channel line on a mapped channel whose registry entry is
\* empty has been handled.
C8_Witness ==
    /\ last.op = "irc_message"
    /\ ~ last.input.is_privmsg
    /\ ConfiguredDiscordChannels(last.input.sender) # {}
    /\ ValidMessage(last.input.text)
    /\ Has(webhooks, 20)
    /\ last.input.sender = ConfigMappings[2][2]
    /\ last.hook = EmptyDict
    /\ last.posts = <<>>

\* C9: a dispatched trigger on a mapped channel with a cached webhook causes
\* exactly one POST, whatever its outcome, to that webhook's id and token,
\* with username nick + " (IRC)" and content the text, wrapped as _text_
\* for an ACTION.
C9_OneDelivery ==
    ( /\ last.op = "irc_message"
      /\ ~ last.input.is_privmsg
      /\ ValidMessage(last.input.text)
      /\ ConfiguredDiscordChannels(last.input.sender) # {}
      /\ last.hook # EmptyDict )
    => /\ Len(last.posts) = 1
       /\ last.outcome \in HttpOutcomes
       /\ last.posts[1].method = "POST"
       /\ last.posts[1].url = << "webhooks", last.hook.id, last.hook.token >>
       /\ last.posts[1].json.username
            = last.input.nick \o << " ", "(", "I", "R", "C", ")" >>
       /\ last.posts[1].json.content
            = IF last.input.intent = "ACTION"
              THEN << "_" >> \o last.input.text \o << "_" >>
              ELSE last.input.text

\* C9 witness: an ACTION has been posted and the POST got a non-2xx answer.
C9_Witness ==
    /\ last.op = "irc_message"
    /\ last.input.intent = "ACTION"
    /\ last.input.text = << "a", " ", "a" >>
    /\ Len(last.posts) = 1
    /\ last.outcome = "4xx"

\* C10: no HTTP error of the delivery POST, network error or non-2xx
\* answer, leaves irc_message as an exception.
C10_NoPropagation ==
    (last.op = "irc_message" /\ last.posts # <<>>) => last.raised = ""

\* a run of setup has ended, by returning or by an exception
RunOver == setup_pc.at = "idle" /\ setup_runs > 0

\* the HTTP calls the current run of _setup_webhooks made for this channel
CallsFor(c, method) ==
    { i \in DOMAIN setup_calls :
        setup_calls[i].channel = c /\ setup_calls[i].method = method }

\* a provisioning call of the current run for this channel failed, by
\* network error or by non-2xx response
Failed(c) ==
    \E i \in DOMAIN setup_calls :
        setup_calls[i].channel = c /\ setup_calls[i].outcome # "2xx"

\* C11: when a run of setup has ended, it has raised nothing and has started
\* the bridge, every mapped channel with a failed provisioning call (network
\* error or non-2xx) has an empty registry entry, and every other mapped
\* channel has a non-empty one.
C11_ProvisioningContinues ==
    RunOver =>
        /\ setup_pc.raised = ""
        /\ setup_pc.loaded
        /\ tasks >= 1
        /\ \A c \in MappedChannels :
             IF Failed(c) THEN HookFor(c) = EmptyDict
                          ELSE HookFor(c) # EmptyDict

\* the mapping pairs as the operator wrote them: the items of the
\* configuration line that have one colon, blanks stripped
WrittenPairs(line) ==
    LET items == Split(line, ",")
        good == { i \in DOMAIN items : Len(Split(items[i], ":")) = 2 }
    IN  [ i \in good |-> << Strip(Split(items[i], ":")[1]),
                            Strip(Split(items[i], ":")[2]) >> ]

\* a Discord channel id or an IRC channel name is written in two pairs
HasDuplicate(line) ==
    LET pairs == WrittenPairs(line)
    IN  \E i, j \in DOMAIN pairs :
            i # j /\ (pairs[i][1] = pairs[j][1] \/ pairs[i][2] = pairs[j][2])

\* C12: for a configuration that writes a Discord channel id or an IRC
\* channel name in two pairs, no mapping table is ever built, no provisioning
\* call is made, no registry entry is written, the bridge is never started,
\* and a run of setup that has ended has ended in an error.
C12_DuplicateIsFatal ==
    HasDuplicate(config) =>
        /\ client_channel_mappings = EmptyDict
        /\ memory_channel_mappings = EmptyDict
        /\ webhooks = EmptyDict
        /\ setup_calls = <<>>
        /\ tasks = 0
        /\ threads = 0
        /\ RunOver => setup_pc.raised # ""

\* C13: after a run of setup that returned, the Discord-to-IRC table maps r
\* to l and the IRC-to-Discord table maps l to r for every pair (r, l) the
\* configuration writes, and no two entries of either table have the same
\* value.
C13_TablesAreInverse ==
    (RunOver /\ setup_pc.loaded /\ setup_pc.raised = "") =>
        LET pairs == WrittenPairs(config)
        IN  /\ \A i \in DOMAIN pairs :
                 /\ Get(client_channel_mappings, int(pairs[i][1]), <<>>)
                      = pairs[i][2]
                 /\ Get(memory_channel_mappings, pairs[i][2], 0)
                      = int(pairs[i][1])
            /\ \A i, j \in DOMAIN client_channel_mappings :
                 i # j => client_channel_mappings[i][2]
                            # client_channel_mappings[j][2]
            /\ \A i, j \in DOMAIN memory_channel_mappings :
                 i # j => memory_channel_mappings[i][2]
                            # memory_channel_mappings[j][2]

\* the request carries the bot credential: 'Authorization: Bot <token>'
CarriesBotCredential(request) ==
    /\ "Authorization" \in DOMAIN request.headers
    /\ request.headers.Authorization = << "Bot", DiscordToken >>

\* C14: no delivery POST of irc_message carries the bot credential, and
\* every listing GET and creation POST of _setup_webhooks carries it.
C14_DeliveryWithoutBotCredential ==
    /\ last.op = "irc_message" =>
         \A i \in DOMAIN last.posts : ~ CarriesBotCredential(last.posts[i])
    /\ \A i \in DOMAIN setup_calls : CarriesBotCredential(setup_calls[i])

\* the indexes at which an occurrence of <:shortcode:digits> starts
MarkupStarts(text) == { i \in DOMAIN text : EmojiAt(text, i) > 0 }

\* the indexes of the characters that are markup around a shortcode: the
\* '<' of each occurrence, and its digits and '>' after the second colon
MarkupAround(text) ==
    UNION { { i } \cup (SkipClass(text, i + 2, WordChars) + 1)
                         ..(i + EmojiAt(text, i) - 1) :
            i \in MarkupStarts(text) }

\* text with every occurrence <:shortcode:digits> reduced to :shortcode:
Rewritten(text) ==
    LET kept == DOMAIN text \ MarkupAround(text)
    IN  [ k \in 1..Cardinality(kept) |->
            text[CHOOSE p \in kept :
                    Cardinality({ q \in kept : q <= p }) = k] ]

\* the text a call forwards: the body of a say, the body of an action with
\* the two markers that on_message took off
ForwardedText(message, sent) ==
    IF sent.call = "action"
    THEN << "_" >> \o Body(message, sent) \o << "_" >>
    ELSE Body(message, sent)

\* C15: the text a call of on_message forwards is the event text with every
\* occurrence <:shortcode:digits> reduced to :shortcode: (then joined with
\* the attachment urls, newlines blanked, stripped); "<:smile:123456789>"
\* is forwarded as ":smile:"; a text without such markup goes through this
\* step unchanged.
C15_EmojiRewritten ==
    (last.op = "on_message" /\ last.sends # <<>>) =>
        LET text == last.input.clean_content
            urls == last.input.attachments
            forwarded == ForwardedText(last.input, last.sends[1])
        IN  /\ forwarded = Strip(ReplaceNewlines(Flatten(Rewritten(text), urls)))
            /\ MarkupStarts(text) = {} =>
                 forwarded = Strip(ReplaceNewlines(Flatten(text, urls)))
            /\ ( /\ urls = <<>>
                 /\ text = << "<", ":", "s", "m", "i", "l", "e", ":",
                              "1", "2", "3", "4", "5", "6", "7", "8", "9", ">" >> )
               => forwarded = << ":", "s", "m", "i", "l", "e", ":" >>

\* C15 witness: a text of two markup occurrences has been forwarded with
\* both rewritten.
C15_Witness ==
    /\ last.op = "on_message"
    /\ last.input.clean_content
         = << "<", ":", "a", ":", "1", ">",
              "<", ":", "a", "b", ":", "2", "2", ">" >>
    /\ last.input.attachments = <<>>
    /\ last.sends # <<>>
    /\ Body(last.input, last.sends[1]) = << ":", "a", ":", ":", "a", "b", ":" >>

\* the webhooks Discord listed for this channel when the current run asked:
\* those it has now, but for the one this run created
ListedToRun(c) ==
    IF \E i \in CallsFor(c, "POST") : setup_calls[i].outcome = "2xx"
    THEN SubSeq(discord_hooks[c], 1, Len(discord_hooks[c]) - 1)
    ELSE discord_hooks[c]

\* C16: a run of setup that has ended has made, for every mapped channel,
\* exactly one listing GET and at most one creation POST, the POST exactly
\* when the listing succeeded and held no webhook of the bridge's name; when
\* the listing succeeded and no POST was made, the registry entry is a
\* listed webhook of that name.
C16_OneListingAtMostOneCreation ==
    RunOver =>
        \A c \in MappedChannels :
            LET gets == CallsFor(c, "GET")
                posts == CallsFor(c, "POST")
                listed == ListedToRun(c)
                named == { i \in DOMAIN listed : listed[i].name = HOOK_NAME }
                answered == \E i \in gets : setup_calls[i].outcome = "2xx"
            IN  /\ Cardinality(gets) = 1
                /\ Cardinality(posts) <= 1
                /\ posts # {} <=> (answered /\ named = {})
                /\ (answered /\ posts = {}) =>
                     \E i \in named : HookFor(c) = listed[i]

\* a direction is active: the Discord client's loop is running, or the
\* plugin is loaded and IRC lines are dispatched to irc_message
Active == loop_running \/ setup_pc.loaded

\* C17: once a direction is active, no step changes the two mapping tables
\* or the webhook registry.
C17_ReadOnlyOnceActive ==
    [][ Active =>
          /\ client_channel_mappings' = client_channel_mappings
          /\ memory_channel_mappings' = memory_channel_mappings
          /\ webhooks' = webhooks ]_vars

\* this step is irc_message handling a line on an IRC channel the
\* configuration pairs with Discord channel c
IrcMessageStepFor(c) ==
    /\ trigger # NoTrigger
    /\ trigger' = NoTrigger
    /\ trigger.sender \in ConfiguredIrcChannels(c)

\* this step is on_message handling an event on Discord channel c
OnMessageStepFor(c) ==
    /\ stream # <<>>
    /\ stream' = Tail(stream)
    /\ Head(stream).channel_id = c

\* C18: while the current run of setup has a failed provisioning call for a
\* mapped channel, irc_message makes no HTTP call for a line on the IRC
\* channel paired with it, on_message makes no say/action call for an event
\* on it, and neither repeats a provisioning call.
C18_NoTrafficAfterFailure ==
    [][ \A c \in MappedChannels :
          Failed(c) =>
            /\ IrcMessageStepFor(c) =>
                 (last'.posts = <<>> /\ setup_calls' = setup_calls)
            /\ OnMessageStepFor(c) =>
                 (last'.sends = <<>> /\ setup_calls' = setup_calls) ]_vars

\* C18 witness: the first run of setup has ended with a failed call for
\* channel 10 while Discord lists a webhook of the bridge's name there, and
\* irc_message has since handled a dispatched line on the channel paired
\* with 10 without a POST.
C18_Witness ==
    /\ RunOver
    /\ setup_runs = 1
    /\ Failed(10)
    /\ discord_hooks[10] = << HookA >>
    /\ last.op = "irc_message"
    /\ last.input.sender \in ConfiguredIrcChannels(10)
    /\ Dispatched(last.input)
    /\ last.posts = <<>>

\* C19: on_message raises nothing, and makes no say/action call for an
\* event that lacks an attribute (text, author, channel or attachments).
C19_NeverRaises ==
    last.op = "on_message" =>
        /\ last.raised = ""
        /\ last.input.missing # {} => last.sends = <<>>

\* irc_message has posted an ACTION line
ActionPosted ==
    /\ last.op = "irc_message"
    /\ last.input.intent = "ACTION"
    /\ last.posts # <<>>

\* the Discord event with the posted content as its text, by a user who is
\* no webhook, without attachments, on the channel it was posted to
PostedBack ==
    Event(UserId, DiscordChannelOf(last.input),
          last.posts[1].json.content, <<>>)

\* on_message decodes the posted content as one action of body t
DecodedAsActionOf(t) ==
    LET sends == on_message(PostedBack)
    IN  /\ Len(sends) = 1
        /\ sends[1].call = "action"
        /\ Body(PostedBack, sends[1]) = t

\* C20 as stated: for every ACTION text t that irc_message posts, on_message
\* decodes the posted content, as the text of an attachment-free event by a
\* non-webhook author, as an action of body t.
C20_ActionRoundTrip ==
    ActionPosted => DecodedAsActionOf(last.input.text)

\* C20 amended: the same for every ACTION text t that is not empty and
\* holds no newline and no custom-emoji markup <:shortcode:digits>.
C20_ActionRoundTripPlain ==
    ( /\ ActionPosted
      /\ last.input.text # <<>>
      /\ \A i \in DOMAIN last.input.text : last.input.text[i] # "\n"
      /\ MarkupStarts(last.input.text) = {} )
    => DecodedAsActionOf(last.input.text)

\* C20 witness: the ACTION "a a" has been posted, and on_message decodes
\* the posted "_a a_" as an action.
C20_Witness ==
    /\ ActionPosted
    /\ last.input.text = << "a", " ", "a" >>
    /\ last.posts[1].json.content = << "_", "a", " ", "a", "_" >>
    /\ on_message(PostedBack)[1].call = "action"
====
